---- MODULE Spec2Model ----
(***************************************************************************)
(* Drywall estimator (src/Drywall_Estimator.py): one run of the script,    *)
(* top to bottom.  The sidebar is read first, then the room loop, the      *)
(* high-parts loop, the material takeoff and the costs.                    *)
(*                                                                         *)
(* Python floats are modelled as exact rationals [num, den] in lowest      *)
(* terms with den > 0, so that two equal quantities are equal records.     *)
(* Rounding error of IEEE doubles is outside this model.                   *)
(***************************************************************************)
EXTENDS Integers, Sequences, FiniteSets, TLC

(* ------------------------------------------------------------------ *)
(* Bounds of the model                                                  *)
(* ------------------------------------------------------------------ *)
MaxRooms == 2
MaxHighParts == 2

(* ------------------------------------------------------------------ *)
(* Exact arithmetic standing for Python's float operators               *)
(* ------------------------------------------------------------------ *)
Abs(x) == IF x < 0 THEN -x ELSE x

RECURSIVE GCD(_, _)
GCD(a, b) == IF b = 0 THEN a ELSE GCD(b, a % b)

\* the rational n/d (d > 0) in lowest terms
Rat(n, d) == LET g == GCD(Abs(n), d) IN [num |-> n \div g, den |-> d \div g]

\* an int literal, or float(int)
R(n) == [num |-> n, den |-> 1]

Zero == R(0)

LCM(a, b) == (a \div GCD(a, b)) * b

\* a + b, a - b over the least common denominator
RAdd(a, b) ==
    LET l == LCM(a.den, b.den)
    IN  Rat(a.num * (l \div a.den) + b.num * (l \div b.den), l)
RSub(a, b) ==
    LET l == LCM(a.den, b.den)
    IN  Rat(a.num * (l \div a.den) - b.num * (l \div b.den), l)
\* a * b, the common factors cancelled before the products are taken
RMul(a, b) ==
    LET g1 == GCD(Abs(a.num), b.den)
        g2 == GCD(Abs(b.num), a.den)
    IN  Rat((a.num \div g1) * (b.num \div g2), (a.den \div g2) * (b.den \div g1))
\* a / b for b > 0: every division of the script is reached with b > 0 or
\* follows a test of b, but for the one RcRaises tells of
RDiv(a, b) == RMul(a, [num |-> b.den, den |-> b.num])

RLt(a, b) == a.num * b.den < b.num * a.den
RLe(a, b) == a.num * b.den <= b.num * a.den
RGt(a, b) == RLt(b, a)
RGe(a, b) == RLe(b, a)

\* max(a, b) of Python: b only when b > a
RMax(a, b) == IF RGt(b, a) THEN b ELSE a

\* math.ceil and math.floor: an int
math_ceil(a) == -((-a.num) \div a.den)
math_floor(a) == a.num \div a.den

RECURSIVE SumSeq(_)
\* sum(...) over a list of rationals
SumSeq(s) == IF s = <<>> THEN Zero ELSE RAdd(Head(s), SumSeq(Tail(s)))

(* ------------------------------------------------------------------ *)
(* Presets and constants                                                *)
(* ------------------------------------------------------------------ *)
\* FT2_TO_M2 = 0.09290304
FT2_TO_M2 == Rat(9290304, 100000000)

\* DOOR_PRESETS: label -> (width ft, height ft)
DOOR_PRESETS(label) ==
    CASE label = "24 x 80 in" -> <<Rat(24, 12), Rat(80, 12)>>
      [] label = "28 x 80 in" -> <<Rat(28, 12), Rat(80, 12)>>
      [] label = "30 x 80 in" -> <<Rat(30, 12), Rat(80, 12)>>
      [] label = "32 x 80 in" -> <<Rat(32, 12), Rat(80, 12)>>
      [] label = "36 x 80 in" -> <<Rat(36, 12), Rat(80, 12)>>

(* ------------------------------------------------------------------ *)
(* State                                                                *)
(* ------------------------------------------------------------------ *)
VARIABLES
    pc,                      \* where the script is: "rooms", "hp_count", "high_parts",
                             \* "summary", "done", or "ZeroDivisionError"
    sidebar,                 \* the sidebar widgets' values, read once (lines 28-74)
    room_count,              \* line 81
    widgets,                 \* per room, the values of its keyed widgets (lines 97-152)
    rooms_data,              \* line 89, appended at 169
    rc_total_lf,             \* line 90
    num_high_parts,          \* line 192
    high_parts,              \* line 193
    qualifying_hp_area_ft2,  \* line 194
    qualifying_hp_count,     \* line 195
    takeoff,                 \* lines 222-253: totals and material quantities
    pricing                  \* lines 275-322: costs, labour, totals

vars == <<pc, sidebar, room_count, widgets, rooms_data, rc_total_lf, num_high_parts,
          high_parts, qualifying_hp_area_ft2, qualifying_hp_count, takeoff, pricing>>

(* ------------------------------------------------------------------ *)
(* Sidebar (lines 28-74)                                                *)
(* ------------------------------------------------------------------ *)
\* waste_pct = number_input(...) if include_waste else 0.0
WastePct(include_waste, waste_input) == IF include_waste THEN waste_input ELSE Zero

\* the widgets' default values
SidebarDefaults ==
    [ include_waste |-> TRUE,
      waste_pct |-> WastePct(TRUE, R(10)),
      mud_gal_per_1000 |-> Rat(95, 10),
      mud_pail_gal |-> Rat(45, 10),
      tape_sqft_per_roll |-> R(1200),
      screws_per_sqft |-> Rat(125, 100),
      screws_per_box |-> R(1000),
      corner_bead_lf_per_1000 |-> R(50),
      corner_bead_piece_len_ft |-> R(8),
      sheet_size |-> "4x8 (32 ft^2)",
      include_resilient_channel |-> FALSE,
      rc_spacing_in |-> R(16),
      rc_piece_length_ft |-> R(12),
      cost_per_sheet |-> Zero,
      cost_mud_pail |-> Zero,
      cost_tape_roll |-> Zero,
      cost_screws_box |-> Zero,
      cost_corner_bead_piece |-> Zero,
      cost_rc_piece |-> Zero,
      pot_light_count |-> Zero,
      pot_light_cost |-> Zero,
      labour_rate_sqft |-> Zero,
      labour_rate_sqm |-> Zero,
      labour_high_part_flat |-> Zero,
      labour_high_part_rate_sqft |-> Zero,
      tax_pct |-> R(13) ]

SHEET_SIZES == {"4x8 (32 ft^2)", "4x12 (48 ft^2)"}
RC_SPACINGS == {R(16), R(24)}

\* Sidebars that vary the general options and the board/RC settings, everything else
\* at its default.
TakeoffSidebars ==
    { [SidebarDefaults EXCEPT
          !.include_waste = iw,
          !.waste_pct = WastePct(iw, wp),
          !.sheet_size = ss,
          !.include_resilient_channel = rc[1],
          !.rc_spacing_in = rc[2]] :
        iw \in BOOLEAN, wp \in {Zero, R(10)}, ss \in SHEET_SIZES,
        rc \in {<<FALSE, R(16)>>} \cup ({TRUE} \X RC_SPACINGS) }

\* Sidebars that vary the unit costs' use, the labour pricing and the tax.
PricingSidebars ==
    { [SidebarDefaults EXCEPT
          !.include_resilient_channel = TRUE,
          !.cost_per_sheet = R(12),
          !.cost_mud_pail = Rat(45, 2),
          !.cost_tape_roll = R(6),
          !.cost_screws_box = R(30),
          !.cost_corner_bead_piece = R(4),
          !.cost_rc_piece = R(7),
          !.pot_light_count = R(3),
          !.pot_light_cost = R(15),
          !.labour_rate_sqft = lsf,
          !.labour_rate_sqm = lsm,
          !.labour_high_part_flat = lf,
          !.labour_high_part_rate_sqft = lh,
          !.tax_pct = tx] :
        lsf \in {Zero, R(2)}, lsm \in {Zero, R(25)},
        lf \in {Zero, R(200)}, lh \in {Zero, R(3)}, tx \in {Zero, R(25)} }

Sidebars == TakeoffSidebars \cup PricingSidebars

\* The factors and divisors that lines 238-253 and 166 test or divide by.
CoreFactors ==
    { "mud_gal_per_1000", "mud_pail_gal", "tape_sqft_per_roll", "screws_per_sqft",
      "screws_per_box", "corner_bead_lf_per_1000", "corner_bead_piece_len_ft",
      "rc_spacing_in", "rc_piece_length_ft" }

\* Settings as the computation itself admits them, any non-negative number: the
\* defaults with none, one or all of the factors at 0.  The sidebar's widgets have
\* positive minimums for all of these but corner_bead_lf_per_1000, so the script is
\* run on them only under CoreSpec, which asks what lines 155-253 do with them.
CoreSidebars ==
    { [f \in DOMAIN SidebarDefaults |->
          IF f \in z THEN Zero
          ELSE IF f = "include_resilient_channel" THEN rc
          ELSE IF f = "sheet_size" THEN ss
          ELSE SidebarDefaults[f]] :
        z \in {{}} \cup {{f} : f \in CoreFactors} \cup {CoreFactors},
        rc \in BOOLEAN, ss \in SHEET_SIZES }

(* ------------------------------------------------------------------ *)
(* Room widgets (lines 97-152)                                          *)
(* ------------------------------------------------------------------ *)
\* a door row: a preset, or "Custom" with its width and height in inches
Door(choice, w_in, h_in) == [door_choice |-> choice, d_w_in |-> w_in, d_h_in |-> h_in]

\* lines 142-152: (d_w, d_h) in feet
DoorSize(door) ==
    IF door.door_choice = "Custom"
    THEN <<RDiv(door.d_w_in, R(12)), RDiv(door.d_h_in, R(12))>>
    ELSE DOOR_PRESETS(door.door_choice)

RoomWidgets(l, w, h, c, wins, drs) ==
    [length |-> l, width |-> w, height |-> h, include_ceiling |-> c,
     windows |-> wins, doors |-> drs]

\* the rooms a user enters in this model
RoomInputs ==
    { \* 10 x 10 ft, 8 ft high, ceiling, no openings
      RoomWidgets(R(10), R(10), R(8), TRUE, <<>>, <<>>),
      \* one window as large as the gross wall area (17 * 18 = 306 = 2 * 17 * 9)
      RoomWidgets(R(12), R(5), R(9), TRUE, << <<R(17), R(18)>> >>, <<>>),
      \* no ceiling, a window, a preset door and a custom door
      RoomWidgets(R(12), R(10), R(8), FALSE, << <<R(3), R(4)>> >>,
                  << Door("30 x 80 in", Zero, Zero), Door("Custom", R(36), R(80)) >>),
      \* a room of no length, its window larger than its walls
      RoomWidgets(Zero, R(10), R(8), TRUE, << <<R(20), R(20)>> >>, <<>>) }

(* ------------------------------------------------------------------ *)
(* Room loop body (lines 155-179)                                       *)
(* ------------------------------------------------------------------ *)
RECURSIVE SumAreas(_)
\* sum(w * h for w, h in openings)
SumAreas(openings) ==
    IF openings = <<>> THEN Zero
    ELSE RAdd(RMul(Head(openings)[1], Head(openings)[2]), SumAreas(Tail(openings)))

DoorSizes(doors) == [k \in 1..Len(doors) |-> DoorSize(doors[k])]

Perimeter(length, width) == RMul(R(2), RAdd(length, width))
WallAreaGross(perimeter, height) == RMul(perimeter, height)
OpeningsArea(windows, doors) == RAdd(SumAreas(windows), SumAreas(doors))
\* the difference left unclamped
WallAreaNetUnclamped(wall_area_gross, openings_area) == RSub(wall_area_gross, openings_area)
WallAreaNet(wall_area_gross, openings_area) ==
    RMax(RSub(wall_area_gross, openings_area), Zero)
CeilingArea(length, width, include_ceiling) ==
    IF include_ceiling THEN RMul(length, width) ELSE Zero
TotalArea(wall_area_net, ceiling_area) == RAdd(wall_area_net, ceiling_area)
\* the percentage taken as the multiplier itself
WasteMultiplierNoOne(waste_pct) == RDiv(waste_pct, R(100))
WasteMultiplier(waste_pct) == RAdd(R(1), RDiv(waste_pct, R(100)))
TotalWithWaste(total_area_ft2, waste_multiplier) == RMul(total_area_ft2, waste_multiplier)

\* line 165
RcApplies(include_resilient_channel, include_ceiling, width, length) ==
    include_resilient_channel /\ include_ceiling /\ RGt(width, Zero) /\ RGt(length, Zero)

\* line 166, its divisor not tested: a zero rc_spacing_in raises ZeroDivisionError
RcRaises(rc_spacing_in) == rc_spacing_in = Zero

\* the closing row at the far edge left out
RcRowsNoClosingRow(width, rc_spacing_in) ==
    math_floor(RDiv(RMul(width, R(12)), rc_spacing_in))
\* line 166
RcRows(width, rc_spacing_in) == math_floor(RDiv(RMul(width, R(12)), rc_spacing_in)) + 1

\* line 167
RcRoomLf(rows, length) == RMul(R(rows), length)

RoomRecord(w, waste_pct) ==
    LET perimeter == Perimeter(w.length, w.width)
        wall_area_gross == WallAreaGross(perimeter, w.height)
        openings_area == OpeningsArea(w.windows, DoorSizes(w.doors))
        wall_area_net == WallAreaNet(wall_area_gross, openings_area)
        ceiling_area == CeilingArea(w.length, w.width, w.include_ceiling)
        total_area_ft2 == TotalArea(wall_area_net, ceiling_area)
        waste_multiplier == WasteMultiplier(waste_pct)
    IN  [ length_ft |-> w.length,
          width_ft |-> w.width,
          height_ft |-> w.height,
          perimeter_ft |-> perimeter,
          wall_area_net_ft2 |-> wall_area_net,
          ceiling_area_ft2 |-> ceiling_area,
          total_area_ft2 |-> total_area_ft2,
          total_with_waste_ft2 |-> TotalWithWaste(total_area_ft2, waste_multiplier) ]

NoTakeoff == [computed |-> FALSE]
NoPricing == [computed |-> FALSE]

Init ==
    /\ pc = "rooms"
    /\ sidebar \in Sidebars
    /\ room_count \in 1..MaxRooms
    /\ widgets = <<>>
    /\ rooms_data = <<>>
    /\ rc_total_lf = Zero
    /\ num_high_parts = 0
    /\ high_parts = <<>>
    /\ qualifying_hp_area_ft2 = Zero
    /\ qualifying_hp_count = 0
    /\ takeoff = NoTakeoff
    /\ pricing = NoPricing

\* one iteration of `for i in range(int(room_count))` (lines 92-186)
RoomIter ==
    /\ pc = "rooms"
    /\ Len(rooms_data) < room_count
    /\ \E w \in RoomInputs :
         LET applies == RcApplies(sidebar.include_resilient_channel,
                                  w.include_ceiling, w.width, w.length)
         IN  /\ widgets' = Append(widgets, w)
             /\ IF applies /\ RcRaises(sidebar.rc_spacing_in)
                THEN /\ pc' = "ZeroDivisionError"
                     /\ UNCHANGED <<rooms_data, rc_total_lf>>
                ELSE /\ rc_total_lf' =
                          IF applies
                          THEN RAdd(rc_total_lf,
                                    RcRoomLf(RcRows(w.width, sidebar.rc_spacing_in), w.length))
                          ELSE rc_total_lf
                     /\ rooms_data' = Append(rooms_data, RoomRecord(w, sidebar.waste_pct))
                     /\ pc' = IF Len(rooms_data) + 1 = room_count THEN "hp_count" ELSE "rooms"
    /\ UNCHANGED <<sidebar, room_count, num_high_parts, high_parts,
                   qualifying_hp_area_ft2, qualifying_hp_count, takeoff, pricing>>

(* ------------------------------------------------------------------ *)
(* High parts loop (lines 192-207)                                      *)
(* ------------------------------------------------------------------ *)
HpWidgets(h, a) == [height |-> h, area_ft2 |-> a]

\* the high parts a user enters in this model
HpInputs ==
    { HpWidgets(R(12), R(100)),
      HpWidgets(R(10), R(100)),
      HpWidgets(R(12), R(64)) }

\* the height compared with >=
QualifiesAtTen(hp_height, hp_area) == RGe(hp_height, R(10)) /\ RGt(hp_area, R(64))
\* line 203
Qualifies(hp_height, hp_area) == RGt(hp_height, R(10)) /\ RGt(hp_area, R(64))

\* lines 192-195
ReadHighPartCount ==
    /\ pc = "hp_count"
    /\ \E n \in 0..MaxHighParts :
         /\ num_high_parts' = n
         /\ pc' = IF n = 0 THEN "summary" ELSE "high_parts"
    /\ high_parts' = <<>>
    /\ qualifying_hp_area_ft2' = Zero
    /\ qualifying_hp_count' = 0
    /\ UNCHANGED <<sidebar, room_count, widgets, rooms_data, rc_total_lf, takeoff, pricing>>

\* one iteration of `for hp in range(num_high_parts)` (lines 197-207)
HighPartIter ==
    /\ pc = "high_parts"
    /\ Len(high_parts) < num_high_parts
    /\ \E w \in HpInputs :
         LET qualifies == Qualifies(w.height, w.area_ft2)
         IN  /\ high_parts' = Append(high_parts,
                    [height |-> w.height, area_ft2 |-> w.area_ft2, qualifies |-> qualifies])
             /\ qualifying_hp_area_ft2' =
                    IF qualifies THEN RAdd(qualifying_hp_area_ft2, w.area_ft2)
                    ELSE qualifying_hp_area_ft2
             /\ qualifying_hp_count' =
                    IF qualifies THEN qualifying_hp_count + 1 ELSE qualifying_hp_count
    /\ pc' = IF Len(high_parts) + 1 = num_high_parts THEN "summary" ELSE "high_parts"
    /\ UNCHANGED <<sidebar, room_count, widgets, rooms_data, rc_total_lf,
                   num_high_parts, takeoff, pricing>>

(* ------------------------------------------------------------------ *)
(* Summary and material takeoff (lines 210-253)                         *)
(* ------------------------------------------------------------------ *)
Column(rows, name) == [k \in 1..Len(rows) |-> rows[k][name]]

\* line 222
TotalFt2(rows) == SumSeq(Column(rows, "total_area_ft2"))
\* the qualifying high-part area boarded as well
TotalWasteFt2WithHighParts(rows) ==
    RAdd(SumSeq(Column(rows, "total_with_waste_ft2")), qualifying_hp_area_ft2)
\* line 224
TotalWasteFt2(rows) == SumSeq(Column(rows, "total_with_waste_ft2"))

\* line 237: "4x8" in sheet_size
SheetArea(sheet_size) == IF sheet_size = "4x8 (32 ft^2)" THEN R(32) ELSE R(48)

\* floor + 1 in place of ceil
SheetsFloorPlusOne(total_waste_ft2, sheet_area) ==
    IF RGt(sheet_area, Zero) THEN math_floor(RDiv(total_waste_ft2, sheet_area)) + 1 ELSE 0
\* line 238
Sheets(total_waste_ft2, sheet_area) ==
    IF RGt(sheet_area, Zero) THEN math_ceil(RDiv(total_waste_ft2, sheet_area)) ELSE 0

\* line 240
MudGal(total_waste_ft2, mud_gal_per_1000) ==
    RMul(RDiv(total_waste_ft2, R(1000)), mud_gal_per_1000)
\* one pail when the pail size is not positive
MudPailsElseOne(mud_gal, mud_pail_gal) ==
    IF RGt(mud_pail_gal, Zero) THEN math_ceil(RDiv(mud_gal, mud_pail_gal)) ELSE 1
\* line 241
MudPails(mud_gal, mud_pail_gal) ==
    IF RGt(mud_pail_gal, Zero) THEN math_ceil(RDiv(mud_gal, mud_pail_gal)) ELSE 0

\* the operands of the division exchanged
TapeRollsSwapped(total_waste_ft2, tape_sqft_per_roll) ==
    IF RGt(total_waste_ft2, Zero)
    THEN math_ceil(RDiv(tape_sqft_per_roll, total_waste_ft2)) ELSE 0
\* line 243
TapeRolls(total_waste_ft2, tape_sqft_per_roll) ==
    IF RGt(tape_sqft_per_roll, Zero)
    THEN math_ceil(RDiv(total_waste_ft2, tape_sqft_per_roll)) ELSE 0

\* line 245
ScrewsQty(total_waste_ft2, screws_per_sqft) == math_ceil(RMul(total_waste_ft2, screws_per_sqft))
\* line 246
ScrewsBoxes(screws_qty, screws_per_box) ==
    IF RGt(screws_per_box, Zero) THEN math_ceil(RDiv(R(screws_qty), screws_per_box)) ELSE 0

\* line 248
CornerBeadLf(total_waste_ft2, corner_bead_lf_per_1000) ==
    RMul(RDiv(total_waste_ft2, R(1000)), corner_bead_lf_per_1000)
\* line 249
CornerBeadPcs(corner_bead_lf, corner_bead_piece_len_ft) ==
    IF RGt(corner_bead_piece_len_ft, Zero)
    THEN math_ceil(RDiv(corner_bead_lf, corner_bead_piece_len_ft)) ELSE 0

\* lines 251-253
RcPieces(include_resilient_channel, rc_lf, rc_piece_length_ft) ==
    IF include_resilient_channel
    THEN IF RGt(rc_piece_length_ft, Zero)
         THEN math_ceil(RDiv(rc_lf, rc_piece_length_ft)) ELSE 0
    ELSE 0

\* lines 222-253 for the settings sb
TakeoffOf(sb, rows, rc_lf) ==
    LET total_ft2 == TotalFt2(rows)
        total_waste_ft2 == TotalWasteFt2(rows)
        area == total_waste_ft2
        sheet_area == SheetArea(sb.sheet_size)
        mud_gal == MudGal(area, sb.mud_gal_per_1000)
        screws_qty == ScrewsQty(area, sb.screws_per_sqft)
        corner_bead_lf == CornerBeadLf(area, sb.corner_bead_lf_per_1000)
    IN  [ computed |-> TRUE,
          total_ft2 |-> total_ft2,
          total_m2 |-> RMul(total_ft2, FT2_TO_M2),
          total_waste_ft2 |-> total_waste_ft2,
          total_waste_m2 |-> RMul(total_waste_ft2, FT2_TO_M2),
          sheet_area |-> sheet_area,
          sheets |-> Sheets(area, sheet_area),
          mud_gal |-> mud_gal,
          mud_pails |-> MudPails(mud_gal, sb.mud_pail_gal),
          tape_rolls |-> TapeRolls(area, sb.tape_sqft_per_roll),
          screws_qty |-> screws_qty,
          screws_boxes |-> ScrewsBoxes(screws_qty, sb.screws_per_box),
          corner_bead_lf |-> corner_bead_lf,
          corner_bead_pcs |-> CornerBeadPcs(corner_bead_lf, sb.corner_bead_piece_len_ft),
          rc_pieces |-> RcPieces(sb.include_resilient_channel, rc_lf, sb.rc_piece_length_ft) ]

(* ------------------------------------------------------------------ *)
(* Costs and pricing (lines 275-322)                                    *)
(* ------------------------------------------------------------------ *)
\* lines 275-294
MaterialSubtotal(sb, t) ==
    LET mat_board_cost == RMul(R(t.sheets), sb.cost_per_sheet)
        mat_mud_cost == RMul(R(t.mud_pails), sb.cost_mud_pail)
        mat_tape_cost == RMul(R(t.tape_rolls), sb.cost_tape_roll)
        mat_screws_cost == RMul(R(t.screws_boxes), sb.cost_screws_box)
        mat_corner_cost == RMul(R(t.corner_bead_pcs), sb.cost_corner_bead_piece)
        mat_rc_cost == IF sb.include_resilient_channel
                       THEN RMul(R(t.rc_pieces), sb.cost_rc_piece) ELSE Zero
        mat_pot_lights_cost == RMul(sb.pot_light_count, sb.pot_light_cost)
        materials_breakdown ==
            <<mat_board_cost, mat_mud_cost, mat_tape_cost, mat_screws_cost, mat_corner_cost>>
            \o (IF sb.include_resilient_channel THEN <<mat_rc_cost>> ELSE <<>>)
            \o <<mat_pot_lights_cost>>
    IN  SumSeq(materials_breakdown)

\* line 297
ChargeAreaFt2(total_waste_ft2, hp_area) == RAdd(total_waste_ft2, hp_area)
\* line 298
ChargeAreaM2(charge_area_ft2) == RMul(charge_area_ft2, FT2_TO_M2)

\* the per-m2 rate tried first
LabourAreaCostSqmFirst(labour_rate_sqft, labour_rate_sqm, charge_area_ft2, charge_area_m2) ==
    IF RGt(labour_rate_sqm, Zero) THEN RMul(charge_area_m2, labour_rate_sqm)
    ELSE IF RGt(labour_rate_sqft, Zero) THEN RMul(charge_area_ft2, labour_rate_sqft)
    ELSE Zero
\* lines 300-308
LabourAreaCost(labour_rate_sqft, labour_rate_sqm, charge_area_ft2, charge_area_m2) ==
    IF RGt(labour_rate_sqft, Zero) THEN RMul(charge_area_ft2, labour_rate_sqft)
    ELSE IF RGt(labour_rate_sqm, Zero) THEN RMul(charge_area_m2, labour_rate_sqm)
    ELSE Zero

\* the per-ft2 rate tried first
LabourHighPartsCostRateFirst(labour_high_part_flat, labour_high_part_rate_sqft, hp_count, hp_area) ==
    IF RGt(labour_high_part_rate_sqft, Zero)
    THEN RMul(hp_area, labour_high_part_rate_sqft)
    ELSE RMul(R(hp_count), labour_high_part_flat)
\* lines 311-316
LabourHighPartsCost(labour_high_part_flat, labour_high_part_rate_sqft, hp_count, hp_area) ==
    IF RGt(labour_high_part_flat, Zero) /\ hp_count > 0
    THEN RMul(R(hp_count), labour_high_part_flat)
    ELSE RMul(hp_area, labour_high_part_rate_sqft)

\* the tax alone, without the subtotal it is added to
TotalWithTaxOnlyTax(subtotal_no_tax, tax_pct) ==
    IF RGt(tax_pct, Zero)
    THEN RMul(subtotal_no_tax, RDiv(tax_pct, R(100)))
    ELSE subtotal_no_tax
\* line 321
TotalWithTax(subtotal_no_tax, tax_pct) ==
    IF RGt(tax_pct, Zero)
    THEN RMul(subtotal_no_tax, RAdd(R(1), RDiv(tax_pct, R(100))))
    ELSE subtotal_no_tax

\* lines 275-322 for the settings sb and the takeoff t
PricingOf(sb, t, hp_count, hp_area) ==
    LET material_subtotal == MaterialSubtotal(sb, t)
        charge_area_ft2 == ChargeAreaFt2(t.total_waste_ft2, hp_area)
        charge_area_m2 == ChargeAreaM2(charge_area_ft2)
        labour_area_cost == LabourAreaCost(sb.labour_rate_sqft, sb.labour_rate_sqm,
                                           charge_area_ft2, charge_area_m2)
        labour_high_parts_cost ==
            LabourHighPartsCost(sb.labour_high_part_flat, sb.labour_high_part_rate_sqft,
                                hp_count, hp_area)
        labour_subtotal == RAdd(labour_area_cost, labour_high_parts_cost)
        subtotal_no_tax == RAdd(material_subtotal, labour_subtotal)
    IN  [ computed |-> TRUE,
          material_subtotal |-> material_subtotal,
          charge_area_ft2 |-> charge_area_ft2,
          charge_area_m2 |-> charge_area_m2,
          labour_area_cost |-> labour_area_cost,
          labour_high_parts_cost |-> labour_high_parts_cost,
          labour_subtotal |-> labour_subtotal,
          subtotal_no_tax |-> subtotal_no_tax,
          total_with_tax |-> TotalWithTax(subtotal_no_tax, sb.tax_pct),
          cash_price |-> subtotal_no_tax ]

\* lines 210-322 (rooms_data is never empty: room_count >= 1)
Summary ==
    /\ pc = "summary"
    /\ LET t == TakeoffOf(sidebar, rooms_data, rc_total_lf)
       IN  /\ takeoff' = t
           /\ pricing' = PricingOf(sidebar, t, qualifying_hp_count, qualifying_hp_area_ft2)
    /\ pc' = "done"
    /\ UNCHANGED <<sidebar, room_count, widgets, rooms_data, rc_total_lf, num_high_parts,
                   high_parts, qualifying_hp_area_ft2, qualifying_hp_count>>

Next == RoomIter \/ ReadHighPartCount \/ HighPartIter \/ Summary

Spec == Init /\ [][Next]_vars

\* the script run on the settings of CoreSidebars
CoreInit ==
    /\ pc = "rooms"
    /\ sidebar \in CoreSidebars
    /\ room_count \in 1..MaxRooms
    /\ widgets = <<>>
    /\ rooms_data = <<>>
    /\ rc_total_lf = Zero
    /\ num_high_parts = 0
    /\ high_parts = <<>>
    /\ qualifying_hp_area_ft2 = Zero
    /\ qualifying_hp_count = 0
    /\ takeoff = NoTakeoff
    /\ pricing = NoPricing

CoreSpec == CoreInit /\ [][Next]_vars

(* ------------------------------------------------------------------ *)
(* Properties                                                           *)
(* ------------------------------------------------------------------ *)
Rooms == 1..Len(rooms_data)

\* 2 * (length + width) * height of a room's widgets
GrossOf(w) == RMul(RMul(R(2), RAdd(w.length, w.width)), w.height)
\* the summed area of a room's windows and doors
OpeningsOf(w) == OpeningsArea(w.windows, DoorSizes(w.doors))

\* C1: for every room the net wall area is never negative; it is exactly 0 when the
\* summed opening area is >= the gross wall area 2*(length+width)*height, and gross
\* minus openings otherwise.
C1_NetWallArea ==
    \A k \in Rooms :
        LET gross == GrossOf(widgets[k])
            openings == OpeningsOf(widgets[k])
            net == rooms_data[k].wall_area_net_ft2
        IN  /\ net.num >= 0
            /\ RGe(openings, gross) => net = Zero
            /\ RLt(openings, gross) => net = RSub(gross, openings)

\* a room whose openings exceed its gross wall area, and one whose openings are smaller
C1_Witness ==
    /\ \E k \in Rooms :
         /\ RGt(OpeningsOf(widgets[k]), GrossOf(widgets[k]))
         /\ rooms_data[k].wall_area_net_ft2 = Zero
    /\ \E k \in Rooms :
         /\ RLt(OpeningsOf(widgets[k]), GrossOf(widgets[k]))
         /\ RGt(OpeningsOf(widgets[k]), Zero)

ExampleRoom == RoomWidgets(R(10), R(10), R(8), TRUE, <<>>, <<>>)

\* C2: for every room total_with_waste = total_area * (1 + wastePct/100), with
\* total_area = net wall area + (length*width if the ceiling is included, else 0);
\* total_with_waste = total_area when wastePct is 0 or the waste checkbox is off; the
\* 10 x 10 ft room, 8 ft high, ceiling included, no openings has total 420 ft2 and
\* 462 ft2 at 10% waste.
C2_TotalWithWaste ==
    \A k \in Rooms :
        LET w == widgets[k]
            r == rooms_data[k]
            total == RAdd(r.wall_area_net_ft2,
                          IF w.include_ceiling THEN RMul(w.length, w.width) ELSE Zero)
        IN  /\ r.total_area_ft2 = total
            /\ RMul(r.total_with_waste_ft2, R(100))
                 = RMul(total, RAdd(R(100), sidebar.waste_pct))
            /\ sidebar.waste_pct = Zero => r.total_with_waste_ft2 = total
            /\ ~sidebar.include_waste => r.total_with_waste_ft2 = total
            /\ w = ExampleRoom =>
                 /\ r.total_area_ft2 = R(420)
                 /\ sidebar.waste_pct = R(10) => r.total_with_waste_ft2 = R(462)

\* the example room at 10% waste
C2_Witness ==
    \E k \in Rooms :
        /\ widgets[k] = ExampleRoom
        /\ sidebar.include_waste /\ sidebar.waste_pct = R(10)
        /\ rooms_data[k].total_with_waste_ft2 = R(462)

\* C3: for every total waste-adjusted area >= 0 and sheet area in {32, 48} the sheet
\* count is the unique integer with (sheets-1)*sheetArea < totalWasteArea <=
\* sheets*sheetArea; area 1000 with sheet area 32 gives 32 sheets.
C3_SheetCount ==
    /\ Sheets(R(1000), SheetArea("4x8 (32 ft^2)")) = 32
    /\ takeoff.computed =>
         LET a == takeoff.total_waste_ft2
             sa == takeoff.sheet_area
             Covers(m) == RLt(RMul(R(m - 1), sa), a) /\ RLe(a, RMul(R(m), sa))
         IN  /\ a.num >= 0
             /\ sa \in {R(32), R(48)}
             /\ Covers(takeoff.sheets)
             /\ \A m \in 0..(takeoff.sheets + 2) : Covers(m) => m = takeoff.sheets

\* a takeoff whose area is no whole number of sheets, so that the count rounds up
C3_Witness ==
    /\ takeoff.computed
    /\ takeoff.sheets > 0
    /\ RLt(takeoff.total_waste_ft2, RMul(R(takeoff.sheets), takeoff.sheet_area))

\* the takeoff quantities lines 238-249 give for the area a under the settings sb
QuantitiesAt(sb, a) ==
    LET screws_qty == ScrewsQty(a, sb.screws_per_sqft)
    IN  << Sheets(a, SheetArea(sb.sheet_size)),
           MudPails(MudGal(a, sb.mud_gal_per_1000), sb.mud_pail_gal),
           TapeRolls(a, sb.tape_sqft_per_roll),
           screws_qty,
           ScrewsBoxes(screws_qty, sb.screws_per_box),
           CornerBeadPcs(CornerBeadLf(a, sb.corner_bead_lf_per_1000),
                         sb.corner_bead_piece_len_ft) >>

\* the quantities of the takeoff computed by the run
QuantitiesOfRun ==
    << takeoff.sheets, takeoff.mud_pails, takeoff.tape_rolls, takeoff.screws_qty,
       takeoff.screws_boxes, takeoff.corner_bead_pcs >>

AllLe(p, q) == \A j \in DOMAIN p : p[j] <= q[j]

\* areas the run's area is compared with
ProbeAreas ==
    { Zero, Rat(65, 2), R(48), Rat(1001, 3), R(800), Rat(2401, 2) }

\* C4: with the settings fixed, sheets, mud pails, tape rolls, screw count, screw boxes
\* and corner-bead pieces are monotonic non-decreasing in the total waste-adjusted
\* area: for areas a <= b each quantity for a is <= the same quantity for b.
C4_Monotonic ==
    /\ rooms_data = <<>> =>
         \A a, b \in ProbeAreas :
            RLe(a, b) => AllLe(QuantitiesAt(sidebar, a), QuantitiesAt(sidebar, b))
    /\ takeoff.computed =>
         \A b \in ProbeAreas :
            /\ RLe(takeoff.total_waste_ft2, b)
                 => AllLe(QuantitiesOfRun, QuantitiesAt(sidebar, b))
            /\ RLe(b, takeoff.total_waste_ft2)
                 => AllLe(QuantitiesAt(sidebar, b), QuantitiesOfRun)

\* a run whose area lies strictly between two probes, more sheets above, fewer below
C4_Witness ==
    /\ takeoff.computed
    /\ \E b, c \in ProbeAreas :
         /\ RLt(b, takeoff.total_waste_ft2) /\ RLt(takeoff.total_waste_ft2, c)
         /\ QuantitiesAt(sidebar, b)[1] < takeoff.sheets
         /\ takeoff.sheets < QuantitiesAt(sidebar, c)[1]
         /\ QuantitiesAt(sidebar, b)[4] < takeoff.screws_qty

\* height strictly above 10 ft and area strictly above 64 ft2
StrictlyHigh(e) == e.height.num > 10 * e.height.den /\ e.area_ft2.num > 64 * e.area_ft2.den

RECURSIVE AreaOfHigh(_)
\* the summed area of the entries of hps that are StrictlyHigh
AreaOfHigh(hps) ==
    IF hps = <<>> THEN Zero
    ELSE RAdd(IF StrictlyHigh(Head(hps)) THEN Head(hps).area_ft2 ELSE Zero,
              AreaOfHigh(Tail(hps)))

\* C5: after processing any list of high-part entries the qualifying count and area are
\* the number and the summed area of the entries with height > 10 ft and area > 64 ft2;
\* an entry of height exactly 10 or area exactly 64 contributes to neither.
C5_Qualifying ==
    /\ qualifying_hp_count
         = Cardinality({k \in 1..Len(high_parts) : StrictlyHigh(high_parts[k])})
    /\ qualifying_hp_area_ft2 = AreaOfHigh(high_parts)
    /\ \A k \in 1..Len(high_parts) :
         /\ high_parts[k].qualifies <=> StrictlyHigh(high_parts[k])
         /\ (high_parts[k].height = R(10) \/ high_parts[k].area_ft2 = R(64))
              => ~high_parts[k].qualifies
    /\ (\A k \in 1..Len(high_parts) :
           high_parts[k].height = R(10) \/ high_parts[k].area_ft2 = R(64))
         => qualifying_hp_count = 0 /\ qualifying_hp_area_ft2 = Zero

\* the loop done on two entries, one at exactly 10 ft and one qualifying
C5_Witness ==
    /\ pc = "summary"
    /\ Len(high_parts) = 2
    /\ \E k \in 1..2 : high_parts[k].height = R(10) /\ RGt(high_parts[k].area_ft2, R(64))
    /\ qualifying_hp_count = 1
    /\ qualifying_hp_area_ft2 = R(100)

\* C6: the area labour cost is chargeableAreaFt2 * ratePerFt2 whenever the per-ft2 rate
\* is positive, whatever the per-m2 rate; chargeableAreaM2 * ratePerM2 only when the
\* per-ft2 rate is not positive and the per-m2 rate is; 0 when neither is positive.
C6_AreaLabour ==
    pricing.computed =>
        LET ft2 == pricing.charge_area_ft2
            m2 == RMul(ft2, FT2_TO_M2)
            cost == pricing.labour_area_cost
        IN  /\ pricing.charge_area_m2 = m2
            /\ sidebar.labour_rate_sqft.num > 0 => cost = RMul(ft2, sidebar.labour_rate_sqft)
            /\ (sidebar.labour_rate_sqft.num <= 0 /\ sidebar.labour_rate_sqm.num > 0)
                 => cost = RMul(m2, sidebar.labour_rate_sqm)
            /\ (sidebar.labour_rate_sqft.num <= 0 /\ sidebar.labour_rate_sqm.num <= 0)
                 => cost = Zero

\* both rates set on a positive area: the per-ft2 rate is the one charged
C6_Witness ==
    /\ pricing.computed
    /\ sidebar.labour_rate_sqft.num > 0 /\ sidebar.labour_rate_sqm.num > 0
    /\ pricing.charge_area_ft2.num > 0
    /\ pricing.labour_area_cost = RMul(pricing.charge_area_ft2, sidebar.labour_rate_sqft)
    /\ pricing.labour_area_cost # RMul(pricing.charge_area_m2, sidebar.labour_rate_sqm)

\* C7: the high-part labour cost is qualifyingCount * flatRate whenever the flat rate is
\* positive and at least one part qualifies, whatever the per-ft2 rate; in every other
\* case it is qualifyingArea * perSqftRate; flat rate 200 with 2 qualifying parts is 400.
C7_HighPartLabour ==
    pricing.computed =>
        LET flat == sidebar.labour_high_part_flat
            rate == sidebar.labour_high_part_rate_sqft
            cost == pricing.labour_high_parts_cost
        IN  /\ (flat.num > 0 /\ qualifying_hp_count > 0)
                 => cost = RMul(R(qualifying_hp_count), flat)
            /\ ~(flat.num > 0 /\ qualifying_hp_count > 0)
                 => cost = RMul(qualifying_hp_area_ft2, rate)
            /\ (flat = R(200) /\ qualifying_hp_count = 2) => cost = R(400)

\* flat rate 200 and a per-ft2 rate both set, two qualifying parts: 400
C7_Witness ==
    /\ pricing.computed
    /\ sidebar.labour_high_part_flat = R(200)
    /\ sidebar.labour_high_part_rate_sqft.num > 0
    /\ qualifying_hp_count = 2
    /\ pricing.labour_high_parts_cost = R(400)
    /\ pricing.labour_high_parts_cost
         # RMul(qualifying_hp_area_ft2, sidebar.labour_high_part_rate_sqft)

\* the rooms' summed waste-adjusted area
RoomsWaste == SumSeq([k \in Rooms |-> rooms_data[k].total_with_waste_ft2])

\* sum of quantity * unit cost over the takeoff lines q and the RC pieces, plus the pot
\* lights
MaterialCostOf(sb, q, rc_pcs) ==
    SumSeq(<< RMul(R(q[1]), sb.cost_per_sheet),
              RMul(R(q[2]), sb.cost_mud_pail),
              RMul(R(q[3]), sb.cost_tape_roll),
              RMul(R(q[5]), sb.cost_screws_box),
              RMul(R(q[6]), sb.cost_corner_bead_piece),
              IF sb.include_resilient_channel THEN RMul(R(rc_pcs), sb.cost_rc_piece) ELSE Zero,
              RMul(sb.pot_light_count, sb.pot_light_cost) >>)

\* C8: high parts affect labour only. The takeoff quantities and the material subtotal
\* of a run are those of its rooms and settings alone (so two runs that differ only in
\* their high parts agree on them), while the labour chargeable area is totalWasteArea
\* plus the run's qualifying high-part area.
C8_HighPartsLabourOnly ==
    pricing.computed =>
        /\ takeoff.total_waste_ft2 = RoomsWaste
        /\ QuantitiesOfRun = QuantitiesAt(sidebar, RoomsWaste)
        /\ takeoff.rc_pieces
             = RcPieces(sidebar.include_resilient_channel, rc_total_lf,
                        sidebar.rc_piece_length_ft)
        /\ pricing.material_subtotal
             = MaterialCostOf(sidebar, QuantitiesAt(sidebar, RoomsWaste),
                              RcPieces(sidebar.include_resilient_channel, rc_total_lf,
                                       sidebar.rc_piece_length_ft))
        /\ pricing.charge_area_ft2 = RAdd(RoomsWaste, AreaOfHigh(high_parts))

\* a run with qualifying high parts whose area would have changed the sheet count
C8_Witness ==
    /\ pricing.computed
    /\ qualifying_hp_area_ft2.num > 0
    /\ pricing.material_subtotal.num > 0
    /\ RGt(pricing.charge_area_ft2, takeoff.total_waste_ft2)
    /\ QuantitiesAt(sidebar, pricing.charge_area_ft2)[1] > takeoff.sheets

\* the rooms of the run in which line 165 holds
RcRoom(w) ==
    /\ sidebar.include_resilient_channel
    /\ w.include_ceiling
    /\ w.length.num > 0
    /\ w.width.num > 0

\* every quantity of the takeoff but the RC pieces is 0
NoMaterial == \A j \in DOMAIN QuantitiesOfRun : QuantitiesOfRun[j] = 0

\* what the guards and the zero factors give once the takeoff is computed
GuardsYieldZero ==
    /\ takeoff.sheet_area.num <= 0 => takeoff.sheets = 0
    /\ sidebar.mud_pail_gal.num <= 0 => takeoff.mud_pails = 0
    /\ sidebar.tape_sqft_per_roll.num <= 0 => takeoff.tape_rolls = 0
    /\ sidebar.screws_per_box.num <= 0 => takeoff.screws_boxes = 0
    /\ sidebar.corner_bead_piece_len_ft.num <= 0 => takeoff.corner_bead_pcs = 0
    /\ sidebar.rc_piece_length_ft.num <= 0 => takeoff.rc_pieces = 0
    /\ sidebar.mud_gal_per_1000 = Zero => takeoff.mud_gal = Zero /\ takeoff.mud_pails = 0
    /\ sidebar.screws_per_sqft = Zero => takeoff.screws_qty = 0 /\ takeoff.screws_boxes = 0
    /\ sidebar.corner_bead_lf_per_1000 = Zero
         => takeoff.corner_bead_lf = Zero /\ takeoff.corner_bead_pcs = 0
    /\ takeoff.total_waste_ft2 = Zero => NoMaterial /\ takeoff.rc_pieces = 0

RcFeetOf(w) ==
    IF RcRoom(w)
    THEN RMul(R(((w.width.num * 12 * sidebar.rc_spacing_in.den)
                   \div (w.width.den * sidebar.rc_spacing_in.num)) + 1),
              w.length)
    ELSE Zero

\* C10: after processing any list of rooms the accumulated RC linear footage is the sum
\* of (floor(width*12/spacing)+1)*length over exactly the rooms where RC is enabled, the
\* ceiling is included and length and width are positive; rcPieces is
\* ceil(total/rcPieceLength) when RC is enabled and rcPieceLength > 0, and 0 otherwise.
C10_ResilientChannel ==
    /\ rc_total_lf = SumSeq([k \in Rooms |-> RcFeetOf(widgets[k])])
    /\ takeoff.computed =>
         LET len == sidebar.rc_piece_length_ft
             n == takeoff.rc_pieces
         IN  IF sidebar.include_resilient_channel /\ len.num > 0
             THEN /\ RGe(RMul(R(n), len), rc_total_lf)
                  /\ RLt(RMul(R(n - 1), len), rc_total_lf)
             ELSE n = 0

\* RC enabled, two rooms, one with its ceiling and one without: only the first counts
C10_Witness ==
    /\ takeoff.computed
    /\ sidebar.include_resilient_channel
    /\ Len(rooms_data) = 2
    /\ RcRoom(widgets[1]) /\ ~widgets[2].include_ceiling
    /\ rc_total_lf = RcFeetOf(widgets[1])
    /\ rc_total_lf.num > 0
    /\ takeoff.rc_pieces > 1

\* C11: subtotal_no_tax equals material cost + area labour cost + high-part labour
\* cost, total_with_tax equals subtotal_no_tax * (1 + tax_pct/100) for every
\* tax_pct >= 0 (0 included), and cash_price equals subtotal_no_tax, so cash_price
\* never exceeds total_with_tax.
C11_Totals ==
    pricing.computed =>
        /\ RGe(sidebar.tax_pct, Zero)
        /\ pricing.subtotal_no_tax
             = RAdd(RAdd(pricing.material_subtotal, pricing.labour_area_cost),
                    pricing.labour_high_parts_cost)
        /\ pricing.total_with_tax
             = RMul(pricing.subtotal_no_tax, RDiv(RAdd(R(100), sidebar.tax_pct), R(100)))
        /\ sidebar.tax_pct = Zero => pricing.total_with_tax = pricing.subtotal_no_tax
        /\ pricing.cash_price = pricing.subtotal_no_tax
        /\ RSub(pricing.total_with_tax, pricing.cash_price).num >= 0

\* a priced run with tax above 0 where materials, area labour and high-part labour
\* all cost something, so the total with tax is strictly above the cash price
C11_Witness ==
    /\ pricing.computed
    /\ RGt(sidebar.tax_pct, Zero)
    /\ RGt(pricing.material_subtotal, Zero)
    /\ RGt(pricing.labour_area_cost, Zero)
    /\ RGt(pricing.labour_high_parts_cost, Zero)
    /\ RSub(pricing.total_with_tax, pricing.cash_price).num > 0

====
